---------------------------- MODULE Spec2Model ----------------------------
(***************************************************************************)
(* A model of the Labs-PR file servers: the unified server of              *)
(* "Lab 2/server.py" with its five modes (single, multi, race, threadsafe, *)
(* ratelimit), the Lab 1 sequential server and the Lab 2 multithreaded     *)
(* server.  Strings of the program (paths, URLs) are sequences of          *)
(* one-character strings, so that os.path.join, os.path.normpath,          *)
(* os.path.abspath and str.startswith are computed character by character. *)
(***************************************************************************)
EXTENDS Integers, Sequences, FiniteSets, TLC

(***************************************************************************)
(* Strings                                                                 *)
(***************************************************************************)
SLASH == "/"
DOT == "."

\* str.startswith(prefix)
StartsWith(s, p) ==
    /\ Len(p) <= Len(s)
    /\ \A i \in 1..Len(p) : s[i] = p[i]

\* str.endswith(suffix)
EndsWith(s, p) ==
    /\ Len(p) <= Len(s)
    /\ \A i \in 1..Len(p) : s[Len(s) - Len(p) + i] = p[i]

\* str.lstrip("/")
RECURSIVE LStripSlash(_)
LStripSlash(s) ==
    IF s # << >> /\ Head(s) = SLASH THEN LStripSlash(Tail(s)) ELSE s

\* str.split("/"): the components between slashes, empty ones included
RECURSIVE SplitSlash(_, _)
SplitSlash(s, cur) ==
    IF s = << >> THEN << cur >>
    ELSE IF Head(s) = SLASH THEN << cur >> \o SplitSlash(Tail(s), << >>)
    ELSE SplitSlash(Tail(s), Append(cur, Head(s)))

\* "/".join(comps)
RECURSIVE JoinSlash(_)
JoinSlash(comps) ==
    IF comps = << >> THEN << >>
    ELSE IF Len(comps) = 1 THEN comps[1]
    ELSE comps[1] \o << SLASH >> \o JoinSlash(Tail(comps))

DOTDOT == << DOT, DOT >>

\* str.lower() on the characters the model uses
LowerChar(ch) ==
    CASE ch = "P" -> "p"
      [] ch = "D" -> "d"
      [] ch = "F" -> "f"
      [] OTHER -> ch

Lower(s) == [i \in 1..Len(s) |-> LowerChar(s[i])]

(***************************************************************************)
(* posixpath                                                               *)
(***************************************************************************)
\* The loop of posixpath.normpath over the components of the path.
RECURSIVE NormComps(_, _, _)
NormComps(comps, new_comps, initial_slashes) ==
    IF comps = << >> THEN new_comps
    ELSE LET comp == Head(comps)
             rest == Tail(comps)
         IN  IF comp = << >> \/ comp = << DOT >>
             THEN NormComps(rest, new_comps, initial_slashes)
             ELSE IF \/ comp # DOTDOT
                     \/ (initial_slashes = 0 /\ new_comps = << >>)
                     \/ (new_comps # << >> /\ new_comps[Len(new_comps)] = DOTDOT)
             THEN NormComps(rest, Append(new_comps, comp), initial_slashes)
             ELSE IF new_comps # << >>
             THEN NormComps(rest, SubSeq(new_comps, 1, Len(new_comps) - 1),
                            initial_slashes)
             ELSE NormComps(rest, new_comps, initial_slashes)

\* The number of leading slashes posixpath.normpath keeps: 0, 1 or 2
InitialSlashes(path) ==
    IF ~StartsWith(path, << SLASH >>) THEN 0
    ELSE IF StartsWith(path, << SLASH, SLASH >>)
            /\ ~StartsWith(path, << SLASH, SLASH, SLASH >>) THEN 2
    ELSE 1

\* os.path.normpath
normpath(path) ==
    IF path = << >> THEN << DOT >>
    ELSE LET n == InitialSlashes(path)
             joined == JoinSlash(NormComps(SplitSlash(path, << >>), << >>, n))
             out == [i \in 1..n |-> SLASH] \o joined
         IN  IF out = << >> THEN << DOT >> ELSE out

\* os.path.join(a, b)
join(a, b) ==
    IF StartsWith(b, << SLASH >>) THEN b
    ELSE IF a = << >> \/ EndsWith(a, << SLASH >>) THEN a \o b
    ELSE a \o << SLASH >> \o b

\* os.path.abspath(path) in the working directory cwd
abspath(cwd, path) ==
    IF StartsWith(path, << SLASH >>) THEN normpath(path)
    ELSE normpath(join(cwd, path))

\* The components of the file a path names, as the operating system walks
\* them from cwd: empty and "." components name nothing, ".." steps up.
Canon(cwd, path) ==
    NormComps(SplitSlash(abspath(cwd, path), << >>), << >>, 1)

\* Path(p).suffix: from the last dot of the last component, unless the dot
\* leads the name or ends it
RECURSIVE LastDot(_, _)
LastDot(name, i) ==
    IF i = 0 THEN 0
    ELSE IF name[i] = DOT THEN i
    ELSE LastDot(name, i - 1)

Suffix(path) ==
    LET comps == SelectSeq(SplitSlash(path, << >>),
                           LAMBDA c : c # << >> /\ c # << DOT >>)
        name == IF comps = << >> THEN << >> ELSE comps[Len(comps)]
        i == LastDot(name, Len(name))
    IN  IF name = DOTDOT \/ i <= 1 \/ i = Len(name) THEN << >>
        ELSE SubSeq(name, i, Len(name))


\* urllib.parse.unquote on the escapes the model's request targets use:
\* "%2e" is ".", "%2f" is "/"
RECURSIVE unquote(_)
unquote(s) ==
    IF s = << >> THEN << >>
    ELSE IF Len(s) >= 3 /\ s[1] = "%" /\ s[2] = "2" /\ s[3] = "e"
    THEN << DOT >> \o unquote(SubSeq(s, 4, Len(s)))
    ELSE IF Len(s) >= 3 /\ s[1] = "%" /\ s[2] = "2" /\ s[3] = "f"
    THEN << SLASH >> \o unquote(SubSeq(s, 4, Len(s)))
    ELSE << Head(s) >> \o unquote(Tail(s))

(***************************************************************************)
(* The file system the servers run on.  The server is started in /h or in  *)
(* /h/w and serves /h/w; /h/w2 is a sibling of the served directory whose  *)
(* name begins with the served directory's name.                           *)
(***************************************************************************)
Name ==
    [h |-> << "h" >>,
     w |-> << "w" >>,
     w2 |-> << "w", "2" >>,
     d |-> << "d" >>,
     i_html |-> << "i", ".", "h", "t", "m", "l" >>,
     k_html |-> << "k", ".", "h", "t", "m", "l" >>,
     r_pdf |-> << "r", ".", "p", "d", "f" >>,
     t_txt |-> << "t", ".", "t", "x", "t" >>,
     u_PDF |-> << "u", ".", "P", "D", "F" >>,
     x_png |-> << "x", ".", "p", "n", "g" >>,
     n_pdf |-> << "n", ".", "p", "d", "f" >>,
     index_html |-> << "i", "n", "d", "e", "x", ".", "h", "t", "m", "l" >>]

\* Directories and files, each by the components of its absolute path
Dirs ==
    { << >>, << Name.h >>, << Name.h, Name.w >>,
      << Name.h, Name.w, Name.d >>, << Name.h, Name.w2 >> }

Files ==
    { << Name.h, Name.w, Name.r_pdf >>, << Name.h, Name.w, Name.t_txt >>,
      << Name.h, Name.w, Name.u_PDF >>, << Name.h, Name.w, Name.d, Name.i_html >>,
      << Name.h, Name.w2, Name.k_html >>, << Name.h, Name.x_png >> }

\* Every name of the file system, in the order sorted() gives
SortedNames ==
    << Name.d, Name.h, Name.i_html, Name.k_html, Name.r_pdf, Name.t_txt,
       Name.u_PDF, Name.w, Name.w2, Name.x_png >>

\* The working directories and arguments (sys.argv[1]) the server is
\* started with; each names the served directory /h/w
Cfg ==
    LET home == << SLASH >> \o Name.h
        root == home \o << SLASH >> \o Name.w
    IN  [rel |-> [cwd |-> home, base_dir |-> Name.w],
         relslash |-> [cwd |-> home, base_dir |-> Name.w \o << SLASH >>],
         abs |-> [cwd |-> home, base_dir |-> root],
         dot |-> [cwd |-> root, base_dir |-> << DOT >>]]

Configs == { Cfg.rel, Cfg.relslash, Cfg.abs, Cfg.dot }


\* os.path.exists and os.path.isdir of a path, in the working directory wd
exists(wd, path) == Canon(wd, path) \in Dirs \cup Files
isdir(wd, path) == Canon(wd, path) \in Dirs

\* sorted(os.listdir(path))
listdir(wd, path) ==
    SelectSeq(SortedNames,
              LAMBDA n : Append(Canon(wd, path), n) \in Dirs \cup Files)

Ext ==
    [html |-> << ".", "h", "t", "m", "l" >>,
     htm |-> << ".", "h", "t", "m" >>,
     png |-> << ".", "p", "n", "g" >>,
     pdf |-> << ".", "p", "d", "f" >>]

SupportedExtensions == { Ext.html, Ext.htm, Ext.png, Ext.pdf }

\* A content type that ignores the extension
get_content_type_Octet(path) == "application/octet-stream"

get_content_type(path) ==
    LET ext == Lower(Suffix(path))
    IN  CASE ext = Ext.html -> "text/html"
          [] ext = Ext.htm -> "text/html"
          [] ext = Ext.png -> "image/png"
          [] ext = Ext.pdf -> "application/pdf"
          [] OTHER -> "application/octet-stream"

(***************************************************************************)
(* Requests and responses                                                  *)
(***************************************************************************)
\* What a client sends: nothing ("empty"), a request line of fewer than two
\* words ("short"), or a request line with a method and a target ("line");
\* and the fault the connection meets: none, recv raising, open raising,
\* or every send raising.
Request(raw, method, target, fault) ==
    [raw |-> raw, method |-> method, target |-> target, fault |-> fault]

NoRequest == Request("none", "", << >>, "none")

Get(target) == Request("line", "GET", target, "none")

\* send_response(client_socket, status_code, content_type, body); a body is
\* a text, a file's content (named by the file) or the rows of a listing
Response(status, ctype, text, file, rows) ==
    [status |-> status, ctype |-> ctype, text |-> text, file |-> file,
     rows |-> rows]

NoResponse == Response(0, "", "", << >>, << >>)

Text(status, ctype, text) == Response(status, ctype, text, << >>, << >>)

\* SERVER_MODE of Lab 2/server.py
Modes == { "single", "multi", "race", "threadsafe", "ratelimit" }
CounterModes == { "race", "threadsafe", "ratelimit" }

\* The program ("lab1" is Lab 1/server.py, "lab2mt" is
\* Lab 2/server_multithreaded.py, "lab2" is Lab 2/server.py) and its mode:
\* Lab 1 serves one connection at a time, the multithreaded server one
\* thread per connection without counter
ProgModes ==
    { << "lab1", "single" >>, << "lab2mt", "multi" >> }
        \cup { << "lab2", m >> : m \in Modes }

\* The bodies of the error responses of each program
NotFoundBody(p) ==
    IF p = "lab2" THEN "404 Not Found: File not found."
    ELSE "404 Not Found: The requested file was not found."

\* An unsupported type answered as a missing file is
UnsupportedBody_Same(p) == NotFoundBody(p)

UnsupportedBody(p) ==
    IF p = "lab2" THEN "File type not supported"
    ELSE "404 Not Found: File type not supported. Server only supports HTML, PNG, and PDF files."

ForbiddenResponse(p) ==
    IF p = "lab1" THEN Text(403, "text/plain", "Forbidden")
    ELSE Text(403, "text/html", "403 Forbidden: Access denied.")

\* rate_limited: the window in seconds and the number of requests admitted
WINDOW == 1
LIMIT == 5

(***************************************************************************)
(* State                                                                   *)
(***************************************************************************)
VARIABLES
    prog,             \* which server file runs
    mode,             \* SERVER_MODE
    cwd,              \* os.getcwd()
    base_dir,         \* sys.argv[1]
    tps,              \* clock ticks per second
    clock,            \* datetime.now().timestamp(), in ticks
    nconn,            \* connections made so far, numbered in arrival order
    pc,               \* where each connection's handler is
    ip,               \* client_address[0]
    req,              \* what the client sent
    now,              \* rate_limited's local now
    rate,             \* what rate_limited returned: "none" before the call
    file_path,        \* handle_client's local file_path, once normalised
    current_count,    \* handle_client's local current_count
    idx,              \* generate_directory_listing: index of the next item
    rows,             \* generate_directory_listing: the rows written so far
    resp,             \* the response sent on the connection
    file_hits,        \* file_hits: path -> count, keys created on write
    counter_lock,     \* the connection holding counter_lock, 0 if none
    rate_limits,      \* rate_limits: ip -> timestamps, keys created on use
    rate_limit_lock,  \* the connection holding rate_limit_lock, 0 if none
    incs,             \* history: path -> increments completed
    overlapped,       \* history: paths read by a handler while another was
                      \* between its read and its write of the same path
    admitted,         \* history: ip -> timestamp -> admissions recorded
    listener,         \* the main thread: "up" in the accept loop, "stopped"
                      \* once interrupted, "exited" when the process is gone
    log               \* history: request, response and file_hits of the
                      \* connections closed so far, where a run records them

config == << prog, mode, cwd, base_dir, tps >>
locals ==
    << ip, req, now, rate, file_path, current_count, idx, rows, resp >>
counter == << file_hits, counter_lock, incs, overlapped >>
limiter == << rate_limits, rate_limit_lock, admitted >>
run == << listener, log >>
vars == << config, run, clock, nconn, pc, locals, counter, limiter >>

Conns == DOMAIN pc

\* dict.get(k, default)
DictGet(d, k, default) == IF k \in DOMAIN d THEN d[k] ELSE default

\* d[k] = v
DictPut(d, k, v) ==
    [x \in DOMAIN d \cup {k} |-> IF x = k THEN v ELSE d[x]]

EmptyDict == [x \in {} |-> 0]

\* Connections that are made and not yet closed
Open == { c \in Conns : pc[c] \notin { "new", "closed" } }

\* Connections a handler is running on
InFlight == { c \in Conns : pc[c] \notin { "new", "queued", "closed" } }


(***************************************************************************)
(* Path resolution (handle_client, handle_request)                         *)
(***************************************************************************)
\* url_path = unquote(request_line[1])
UrlPath(r) == unquote(r.target)

\* Lab 1 serves index.html for "/"
ResolvedUrl(r) ==
    IF prog = "lab1" /\ UrlPath(r) = << SLASH >>
    THEN << SLASH >> \o Name.index_html
    ELSE UrlPath(r)

\* file_path after os.path.normpath
FilePath(r) ==
    IF prog # "lab1" /\ UrlPath(r) = << SLASH >> THEN normpath(base_dir)
    ELSE normpath(join(base_dir, LStripSlash(ResolvedUrl(r))))

\* file_path_abs.startswith(base_dir_abs)
InsideBase(path) ==
    StartsWith(abspath(cwd, path), abspath(cwd, base_dir))

\* One row of a directory listing; hits is -1 where the program shows none
ItemRow(dir_path, url_path, item, hits) ==
    [name |-> IF isdir(cwd, join(dir_path, item))
              THEN item \o << SLASH >> ELSE item,
     url |-> IF EndsWith(url_path, << SLASH >>) THEN url_path \o item
             ELSE url_path \o << SLASH >> \o item,
     hits |-> hits]

\* generate_directory_listing without hit counts (single and multi modes,
\* server_multithreaded.py)
PlainRows(dir_path, url_path) ==
    LET items == listdir(cwd, dir_path)
    IN  [i \in 1..Len(items) |-> ItemRow(dir_path, url_path, items[i], -1)]

\* str.rstrip("/")
RECURSIVE RStripSlash(_)
RStripSlash(s) ==
    IF s # << >> /\ s[Len(s)] = SLASH
    THEN RStripSlash(SubSeq(s, 1, Len(s) - 1)) ELSE s

\* Lab 1's generate_directory_listing: the parent link, the directories,
\* then the files
Lab1Rows(dir_path, url_path) ==
    LET items == listdir(cwd, dir_path)
        dirs == SelectSeq(items, LAMBDA n : isdir(cwd, join(dir_path, n)))
        files == SelectSeq(items, LAMBDA n : ~isdir(cwd, join(dir_path, n)))
        stem == RStripSlash(url_path)
        comps == SplitSlash(stem, << >>)
        up == JoinSlash(SubSeq(comps, 1, Len(comps) - 1))
        parent == IF url_path = << SLASH >> THEN << >>
                  ELSE << [name |-> << DOT, DOT >>,
                           url |-> IF up = << >> THEN << SLASH >> ELSE up,
                           hits |-> -1] >>
    IN  parent
        \o [i \in 1..Len(dirs) |->
               [name |-> dirs[i] \o << SLASH >>,
                url |-> stem \o << SLASH >> \o dirs[i] \o << SLASH >>,
                hits |-> -1]]
        \o [i \in 1..Len(files) |->
               [name |-> files[i],
                url |-> stem \o << SLASH >> \o files[i],
                hits |-> -1]]

Listing(rws) == Response(200, "text/html", "", << >>, rws)

\* The response for a file that exists: its content, or 404 for a type the
\* server does not support
FileResponse(path) ==
    IF Lower(Suffix(path)) \notin SupportedExtensions
    THEN Text(404, "text/html", UnsupportedBody(prog))
    ELSE Response(200, get_content_type(path), "", Canon(cwd, path), << >>)

(***************************************************************************)
(* rate_limited and the counter                                            *)
(***************************************************************************)
\* [ts for ts in timestamps if now - ts < 1]
Prune(timestamps, n) ==
    SelectSeq(timestamps, LAMBDA ts : n - ts < WINDOW * tps)

\* A test that lets the list grow one past the limit
OverLimit_Above(timestamps) == Len(timestamps) > LIMIT

\* len(rate_limits[ip_addr]) >= 5
OverLimit(timestamps) == Len(timestamps) >= LIMIT

\* An assignment that reaches the list of every address
Stored_All(limits, a, timestamps) ==
    [x \in DOMAIN limits \cup {a} |-> timestamps]

\* rate_limits[ip_addr] = ...
Stored(limits, a, timestamps) == DictPut(limits, a, timestamps)

\* A handler that goes on after the 429
AfterRateCheck_NoReturn(limited) == "check"

\* handle_client: if rate_limited(ip): send 429 and return
AfterRateCheck(limited) == IF limited THEN "close" ELSE "check"

\* A lock that excludes nobody
LockFree_NoWait(lock) == TRUE

\* The history of admissions: for each address, how many admitted checks
\* recorded each timestamp
Recorded(history, a, n) ==
    LET old == DictGet(history, a, EmptyDict)
    IN  DictPut(history, a, DictPut(old, n, DictGet(old, n, 0) + 1))

\* A with block that keeps the lock on leaving
Released_Held(lock) == lock

\* threading.Lock: leaving the with block releases the lock
Released(lock) == 0

\* threading.Lock: acquire waits until no thread holds the lock
LockFree(lock) == lock = 0

\* An increment by two
Incremented_ByTwo(hits, path, count) == DictPut(hits, path, count + 2)

\* An increment that reads the count again when it writes
Incremented_Reread(hits, path, count) ==
    DictPut(hits, path, DictGet(hits, path, 0) + 1)

\* file_hits[file_path] = current_count + 1
Incremented(hits, path, count) == DictPut(hits, path, count + 1)

\* A listener that waits for every handler, whatever the mode
ListenerReady_Waits ==
    /\ listener = "up"
    /\ InFlight = {}

\* A listener that accepts while a handler runs
ListenerReady_Always == listener = "up"

\* run_single_threaded calls handle_client and accepts again when it
\* returns; run_multithreaded starts a thread and accepts at once
ListenerReady ==
    /\ listener = "up"
    /\ IF mode = "single" THEN InFlight = {} ELSE TRUE


(***************************************************************************)
(* Initial state                                                           *)
(***************************************************************************)
InitWith(progmodes, configs, ticks, n) ==
    /\ \E pm \in progmodes : prog = pm[1] /\ mode = pm[2]
    /\ \E cfg \in configs : cwd = cfg.cwd /\ base_dir = cfg.base_dir
    /\ tps = ticks
    /\ clock = 0
    /\ nconn = 0
    /\ pc = [c \in 1..n |-> "new"]
    /\ ip = [c \in 1..n |-> ""]
    /\ req = [c \in 1..n |-> NoRequest]
    /\ now = [c \in 1..n |-> 0]
    /\ rate = [c \in 1..n |-> "none"]
    /\ file_path = [c \in 1..n |-> << >>]
    /\ current_count = [c \in 1..n |-> 0]
    /\ idx = [c \in 1..n |-> 0]
    /\ rows = [c \in 1..n |-> << >>]
    /\ resp = [c \in 1..n |-> NoResponse]
    /\ file_hits = EmptyDict
    /\ counter_lock = 0
    /\ rate_limits = EmptyDict
    /\ rate_limit_lock = 0
    /\ incs = EmptyDict
    /\ overlapped = {}
    /\ admitted = EmptyDict
    /\ listener = "up"
    /\ log = << >>

(***************************************************************************)
(* The listener                                                            *)
(***************************************************************************)
\* A client connects; the connection waits in the listen queue
Connect(c, maxOpen) ==
    /\ pc[c] = "new"
    /\ c = nconn + 1
    /\ Cardinality(Open) < maxOpen
    /\ nconn' = c
    /\ pc' = [pc EXCEPT ![c] = "queued"]
    /\ UNCHANGED << config, run, clock, locals, counter, limiter >>

\* server_socket.accept() returns the oldest waiting connection; the
\* listener calls the handler (single) or starts a thread running it
Accept(c, a) ==
    /\ pc[c] = "queued"
    /\ \A d \in Conns : pc[d] = "queued" => c <= d
    /\ ListenerReady
    /\ ip' = [ip EXCEPT ![c] = a]
    /\ pc' = [pc EXCEPT ![c] = IF prog = "lab2mt" THEN "presleep" ELSE "recv"]
    /\ UNCHANGED << config, run, clock, nconn, req, now, rate, file_path,
                    current_count, idx, rows, resp, counter, limiter >>

(***************************************************************************)
(* The handler                                                             *)
(***************************************************************************)
\* send_response: the response goes out, or the send raises
Send(c, r) ==
    IF req[c].fault = "send"
    THEN /\ pc' = [pc EXCEPT ![c] = "except"]
         /\ resp' = resp
    ELSE /\ pc' = [pc EXCEPT ![c] = "close"]
         /\ resp' = [resp EXCEPT ![c] = r]

\* server_multithreaded.py: time.sleep(1) before the request is read
PreSleep(c) ==
    /\ pc[c] = "presleep"
    /\ pc' = [pc EXCEPT ![c] = "recv"]
    /\ UNCHANGED << config, run, clock, nconn, locals, counter, limiter >>

\* A handler that tests the method before it consults the rate limiter
Recv_MethodFirst(c, r) ==
    /\ pc[c] = "recv"
    /\ req' = [req EXCEPT ![c] = r]
    /\ IF r.fault # "none" THEN pc' = [pc EXCEPT ![c] = "except"] /\ resp' = resp
       ELSE IF r.raw = "empty"
       THEN pc' = [pc EXCEPT ![c] = "close"] /\ resp' = resp
       ELSE IF r.raw = "short"
       THEN /\ pc' = [pc EXCEPT ![c] = "close"]
            /\ resp' = [resp EXCEPT ![c] =
                           Text(400, "text/plain", "Bad Request")]
       ELSE IF r.method # "GET"
       THEN /\ pc' = [pc EXCEPT ![c] = "close"]
            /\ resp' = [resp EXCEPT ![c] =
                           Text(405, "text/plain", "Method Not Allowed")]
       ELSE /\ pc' = [pc EXCEPT ![c] =
                         IF mode = "ratelimit" THEN "rl_now" ELSE "check"]
            /\ resp' = resp
    /\ UNCHANGED << config, run, clock, nconn, ip, now, rate, file_path,
                    current_count, idx, rows, counter, limiter >>

\* recv and the parse of the request line
Recv(c, r) ==
    /\ pc[c] = "recv"
    /\ req' = [req EXCEPT ![c] = r]
    /\ IF r.fault = "recv"
       THEN pc' = [pc EXCEPT ![c] = "except"] /\ resp' = resp
       ELSE IF r.raw = "empty"
       THEN pc' = [pc EXCEPT ![c] = "close"] /\ resp' = resp
       ELSE IF r.raw = "short"
       THEN IF r.fault = "send"
            THEN pc' = [pc EXCEPT ![c] = "except"] /\ resp' = resp
            ELSE /\ pc' = [pc EXCEPT ![c] = "close"]
                 /\ resp' = [resp EXCEPT ![c] =
                                Text(400, "text/plain", "Bad Request")]
       ELSE /\ pc' = [pc EXCEPT ![c] =
                         IF mode = "ratelimit" THEN "rl_now" ELSE "check"]
            /\ resp' = resp
    /\ UNCHANGED << config, run, clock, nconn, ip, now, rate, file_path,
                    current_count, idx, rows, counter, limiter >>

\* rate_limited: now = datetime.now().timestamp()
RateNow(c) ==
    /\ pc[c] = "rl_now"
    /\ now' = [now EXCEPT ![c] = clock]
    /\ pc' = [pc EXCEPT ![c] = "rl_lock"]
    /\ UNCHANGED << config, run, clock, nconn, ip, req, rate, file_path,
                    current_count, idx, rows, resp, counter, limiter >>

\* rate_limited: with rate_limit_lock
RateAcquire(c) ==
    /\ pc[c] = "rl_lock"
    /\ LockFree(rate_limit_lock)
    /\ rate_limit_lock' = c
    /\ pc' = [pc EXCEPT ![c] = "rl_body"]
    /\ UNCHANGED << config, run, clock, nconn, locals, counter, rate_limits,
                    admitted >>

\* A check that appends the timestamp also when it rejects
RateCheck_Appends(c) ==
    /\ pc[c] = "rl_body"
    /\ LET pruned == Prune(DictGet(rate_limits, ip[c], << >>), now[c])
       IN  /\ rate_limits' = Stored(rate_limits, ip[c], Append(pruned, now[c]))
           /\ IF OverLimit(pruned)
              THEN /\ admitted' = admitted
                   /\ rate' = [rate EXCEPT ![c] = "rejected"]
                   /\ pc' = [pc EXCEPT ![c] = AfterRateCheck(TRUE)]
                   /\ resp' = [resp EXCEPT ![c] =
                          Text(429, "text/plain", "Too Many Requests")]
              ELSE /\ admitted' = Recorded(admitted, ip[c], now[c])
                   /\ rate' = [rate EXCEPT ![c] = "admitted"]
                   /\ pc' = [pc EXCEPT ![c] = AfterRateCheck(FALSE)]
                   /\ resp' = resp
    /\ rate_limit_lock' = Released(rate_limit_lock)
    /\ UNCHANGED << config, run, clock, nconn, ip, req, now, file_path,
                    current_count, idx, rows, counter >>

\* rate_limited: prune, test, append, release; the handler answers 429 if
\* the call returned True
RateCheck(c) ==
    /\ pc[c] = "rl_body"
    /\ LET pruned == Prune(DictGet(rate_limits, ip[c], << >>), now[c])
       IN  IF OverLimit(pruned)
           THEN /\ rate_limits' = Stored(rate_limits, ip[c], pruned)
                /\ admitted' = admitted
                /\ rate' = [rate EXCEPT ![c] = "rejected"]
                /\ IF req[c].fault = "send"
                   THEN pc' = [pc EXCEPT ![c] = "except"] /\ resp' = resp
                   ELSE /\ pc' = [pc EXCEPT ![c] = AfterRateCheck(TRUE)]
                        /\ resp' = [resp EXCEPT ![c] =
                               Text(429, "text/plain", "Too Many Requests")]
           ELSE /\ rate_limits' =
                       Stored(rate_limits, ip[c], Append(pruned, now[c]))
                /\ admitted' = Recorded(admitted, ip[c], now[c])
                /\ rate' = [rate EXCEPT ![c] = "admitted"]
                /\ pc' = [pc EXCEPT ![c] = AfterRateCheck(FALSE)]
                /\ resp' = resp
    /\ rate_limit_lock' = Released(rate_limit_lock)
    /\ UNCHANGED << config, run, clock, nconn, ip, req, now, file_path,
                    current_count, idx, rows, counter >>

\* rate_limited, statement by statement under the lock: the prune
RatePrune(c) ==
    /\ pc[c] = "rl_body"
    /\ rate_limits' =
           Stored(rate_limits, ip[c],
                  Prune(DictGet(rate_limits, ip[c], << >>), now[c]))
    /\ pc' = [pc EXCEPT ![c] = "rl_test"]
    /\ UNCHANGED << config, run, clock, nconn, locals, counter,
                    rate_limit_lock, admitted >>

\* rate_limited: the length test; return True releases the lock
RateTest(c) ==
    /\ pc[c] = "rl_test"
    /\ IF OverLimit(rate_limits[ip[c]])
       THEN /\ rate' = [rate EXCEPT ![c] = "rejected"]
            /\ rate_limit_lock' = Released(rate_limit_lock)
            /\ pc' = [pc EXCEPT ![c] = AfterRateCheck(TRUE)]
       ELSE /\ rate' = rate
            /\ rate_limit_lock' = rate_limit_lock
            /\ pc' = [pc EXCEPT ![c] = "rl_append"]
    /\ UNCHANGED << config, run, clock, nconn, ip, req, now, file_path,
                    current_count, idx, rows, resp, counter, rate_limits,
                    admitted >>

\* rate_limited: the append; return False releases the lock
RateAppend(c) ==
    /\ pc[c] = "rl_append"
    /\ rate_limits' =
           Stored(rate_limits, ip[c], Append(rate_limits[ip[c]], now[c]))
    /\ admitted' = Recorded(admitted, ip[c], now[c])
    /\ rate' = [rate EXCEPT ![c] = "admitted"]
    /\ rate_limit_lock' = Released(rate_limit_lock)
    /\ pc' = [pc EXCEPT ![c] = AfterRateCheck(FALSE)]
    /\ UNCHANGED << config, run, clock, nconn, ip, req, now, file_path,
                    current_count, idx, rows, resp, counter >>

\* Single and multi modes that count like race mode
AfterCheck_AllCount ==
    IF prog # "lab2" THEN "serve"
    ELSE IF mode \in { "single", "multi", "race" } THEN "race_read"
    ELSE "c_lock"

\* A race mode that leaves the counter out
AfterCheck_RaceUncounted ==
    IF prog # "lab2" THEN "serve"
    ELSE IF mode \in { "single", "multi" } THEN "sleep"
    ELSE IF mode = "race" THEN "serve"
    ELSE "c_lock"

\* Where the handler goes once the path is known to exist
AfterCheck ==
    IF prog # "lab2" THEN "serve"
    ELSE IF mode \in { "single", "multi" } THEN "sleep"
    ELSE IF mode = "race" THEN "race_read"
    ELSE "c_lock"

\* The method, traversal and existence checks
CheckPath(c) ==
    /\ pc[c] = "check"
    /\ LET r == req[c]
           path == FilePath(r)
       IN  IF r.method # "GET"
           THEN /\ Send(c, Text(405, "text/plain", "Method Not Allowed"))
                /\ file_path' = file_path
           ELSE IF /\ prog = "lab1"
                   /\ UrlPath(r) = << SLASH >>
                   /\ ~exists(cwd, join(base_dir, Name.index_html))
           THEN /\ Send(c, Listing(Lab1Rows(base_dir, << SLASH >>)))
                /\ file_path' = file_path
           ELSE /\ file_path' = [file_path EXCEPT ![c] = path]
                /\ IF ~InsideBase(path)
                   THEN Send(c, ForbiddenResponse(prog))
                   ELSE IF ~exists(cwd, path)
                   THEN Send(c, Text(404, "text/html", NotFoundBody(prog)))
                   ELSE pc' = [pc EXCEPT ![c] = AfterCheck] /\ resp' = resp
    /\ UNCHANGED << config, run, clock, nconn, ip, req, now, rate, current_count,
                    idx, rows, counter, limiter >>

\* single and multi modes: time.sleep(1)
Sleep(c) ==
    /\ pc[c] = "sleep"
    /\ pc' = [pc EXCEPT ![c] = "serve"]
    /\ UNCHANGED << config, run, clock, nconn, locals, counter, limiter >>

\* Reading file_hits: the path counts as overlapped if another handler has
\* read its count and not yet written it
ReadOverlaps(c) ==
    IF \E d \in Conns \ {c} :
          /\ pc[d] \in { "race_write", "c_write" }
          /\ file_path[d] = file_path[c]
    THEN overlapped \cup { file_path[c] }
    ELSE overlapped

\* race mode: current_count = file_hits.get(file_path, 0)
RaceRead(c) ==
    /\ pc[c] = "race_read"
    /\ current_count' =
           [current_count EXCEPT ![c] = DictGet(file_hits, file_path[c], 0)]
    /\ overlapped' = ReadOverlaps(c)
    /\ pc' = [pc EXCEPT ![c] = "race_write"]
    /\ UNCHANGED << config, run, clock, nconn, ip, req, now, rate, file_path, idx,
                    rows, resp, file_hits, counter_lock, incs, limiter >>

\* race mode: time.sleep(0.001); file_hits[file_path] = current_count + 1
RaceWrite(c) ==
    /\ pc[c] = "race_write"
    /\ file_hits' = Incremented(file_hits, file_path[c], current_count[c])
    /\ incs' = DictPut(incs, file_path[c], DictGet(incs, file_path[c], 0) + 1)
    /\ pc' = [pc EXCEPT ![c] = "serve"]
    /\ UNCHANGED << config, run, clock, nconn, locals, counter_lock, overlapped,
                    limiter >>

\* threadsafe and ratelimit modes: with counter_lock, and the read
CounterAcquire(c) ==
    /\ pc[c] = "c_lock"
    /\ LockFree(counter_lock)
    /\ counter_lock' = c
    /\ current_count' =
           [current_count EXCEPT ![c] = DictGet(file_hits, file_path[c], 0)]
    /\ overlapped' = ReadOverlaps(c)
    /\ pc' = [pc EXCEPT ![c] = "c_write"]
    /\ UNCHANGED << config, run, clock, nconn, ip, req, now, rate, file_path, idx,
                    rows, resp, file_hits, incs, limiter >>

\* An increment that keeps counter_lock when it is done
CounterWrite_KeepsLock(c) ==
    /\ pc[c] = "c_write"
    /\ file_hits' = Incremented(file_hits, file_path[c], current_count[c])
    /\ incs' = DictPut(incs, file_path[c], DictGet(incs, file_path[c], 0) + 1)
    /\ counter_lock' = counter_lock
    /\ pc' = [pc EXCEPT ![c] = "serve"]
    /\ UNCHANGED << config, run, clock, nconn, locals, overlapped, limiter >>

\* threadsafe and ratelimit modes: the sleep, the write and the release
CounterWrite(c) ==
    /\ pc[c] = "c_write"
    /\ file_hits' = Incremented(file_hits, file_path[c], current_count[c])
    /\ incs' = DictPut(incs, file_path[c], DictGet(incs, file_path[c], 0) + 1)
    /\ counter_lock' = Released(counter_lock)
    /\ pc' = [pc EXCEPT ![c] = "serve"]
    /\ UNCHANGED << config, run, clock, nconn, locals, overlapped, limiter >>

\* The directory listing or the file
Serve(c) ==
    /\ pc[c] = "serve"
    /\ LET r == req[c]
           path == file_path[c]
       IN  IF isdir(cwd, path)
           THEN IF prog = "lab1"
                THEN /\ Send(c, Listing(Lab1Rows(path, ResolvedUrl(r))))
                     /\ idx' = idx
                ELSE IF mode \in CounterModes /\ listdir(cwd, path) # << >>
                THEN /\ pc' = [pc EXCEPT ![c] = "ls_lock"]
                     /\ idx' = [idx EXCEPT ![c] = 1]
                     /\ resp' = resp
                ELSE /\ Send(c, Listing(PlainRows(path, UrlPath(r))))
                     /\ idx' = idx
           ELSE /\ idx' = idx
                /\ IF /\ r.fault = "open"
                      /\ Lower(Suffix(path)) \in SupportedExtensions
                   THEN pc' = [pc EXCEPT ![c] = "except"] /\ resp' = resp
                   ELSE Send(c, FileResponse(path))
    /\ UNCHANGED << config, run, clock, nconn, ip, req, now, rate, file_path,
                    current_count, rows, counter, limiter >>

\* generate_directory_listing in the counter modes: with counter_lock
ListAcquire(c) ==
    /\ pc[c] = "ls_lock"
    /\ LockFree(counter_lock)
    /\ counter_lock' = c
    /\ pc' = [pc EXCEPT ![c] = "ls_read"]
    /\ UNCHANGED << config, run, clock, nconn, locals, file_hits, incs, overlapped,
                    limiter >>

\* generate_directory_listing in the counter modes:
\* hits = file_hits.get(fpath, 0), the release and the row; after the last
\* item the listing is sent
ListRead(c) ==
    /\ pc[c] = "ls_read"
    /\ LET r == req[c]
           dir_path == file_path[c]
           items == listdir(cwd, dir_path)
           fpath == join(dir_path, items[idx[c]])
           row == ItemRow(dir_path, UrlPath(r), items[idx[c]],
                          DictGet(file_hits, fpath, 0))
       IN  /\ rows' = [rows EXCEPT ![c] = Append(@, row)]
           /\ IF idx[c] < Len(items)
              THEN /\ idx' = [idx EXCEPT ![c] = @ + 1]
                   /\ pc' = [pc EXCEPT ![c] = "ls_lock"]
                   /\ resp' = resp
              ELSE /\ idx' = idx
                   /\ Send(c, Listing(Append(rows[c], row)))
    /\ counter_lock' = Released(counter_lock)
    /\ UNCHANGED << config, run, clock, nconn, ip, req, now, rate, file_path,
                    current_count, file_hits, incs, overlapped, limiter >>

\* A handler that answers nothing after a fault
Except_Silent(c) ==
    /\ pc[c] = "except"
    /\ resp' = resp
    /\ pc' = [pc EXCEPT ![c] = "close"]
    /\ UNCHANGED << config, run, clock, nconn, ip, req, now, rate, file_path,
                    current_count, idx, rows, counter, limiter >>

\* except Exception: send 500 if the socket still takes it
Except(c) ==
    /\ pc[c] = "except"
    /\ resp' = IF req[c].fault = "send" THEN resp
               ELSE [resp EXCEPT ![c] =
                        Text(500, "text/plain", "Internal Server Error: ")]
    /\ pc' = [pc EXCEPT ![c] = "close"]
    /\ UNCHANGED << config, run, clock, nconn, ip, req, now, rate, file_path,
                    current_count, idx, rows, counter, limiter >>

\* The handler returns and its locals are gone
Reset(c) ==
    /\ pc' = [pc EXCEPT ![c] = "closed"]
    /\ ip' = [ip EXCEPT ![c] = ""]
    /\ req' = [req EXCEPT ![c] = NoRequest]
    /\ now' = [now EXCEPT ![c] = 0]
    /\ rate' = [rate EXCEPT ![c] = "none"]
    /\ file_path' = [file_path EXCEPT ![c] = << >>]
    /\ current_count' = [current_count EXCEPT ![c] = 0]
    /\ idx' = [idx EXCEPT ![c] = 0]
    /\ rows' = [rows EXCEPT ![c] = << >>]
    /\ resp' = [resp EXCEPT ![c] = NoResponse]

Finish(c) ==
    /\ Reset(c)
    /\ UNCHANGED << config, run, clock, nconn, counter, limiter >>

\* finally: client_socket.close()
Close(c) ==
    /\ pc[c] = "close"
    /\ Finish(c)

\* finally: client_socket.close(), the run keeping a record of the
\* connection: what was asked, what was answered and file_hits at the close
CloseLogged(c) ==
    /\ pc[c] = "close"
    /\ Reset(c)
    /\ log' = Append(log, [req |-> req[c], resp |-> resp[c],
                           hits |-> file_hits])
    /\ UNCHANGED << config, listener, clock, nconn, counter, limiter >>

\* The server is stopped between connections, SERVER_MODE is edited to m
\* and the server is started again: the globals are new, the record of the
\* earlier run is kept
Restart(m) ==
    /\ nconn > 0
    /\ \A c \in Conns : pc[c] \in { "new", "closed" }
    /\ mode' = m
    /\ nconn' = 0
    /\ pc' = [c \in Conns |-> "new"]
    /\ file_hits' = EmptyDict
    /\ counter_lock' = 0
    /\ incs' = EmptyDict
    /\ overlapped' = {}
    /\ rate_limits' = EmptyDict
    /\ rate_limit_lock' = 0
    /\ admitted' = EmptyDict
    /\ UNCHANGED << prog, cwd, base_dir, tps, run, clock, locals >>

\* KeyboardInterrupt is raised in the main thread.  In the threaded modes the
\* main thread is in accept and leaves the loop.  In the programs that call
\* the handler from the loop the handler itself is interrupted: except
\* Exception does not catch KeyboardInterrupt; handle_client's finally closes
\* the socket, handle_request has no finally and its socket is never closed.
Interrupt ==
    /\ listener = "up"
    /\ listener' = "stopped"
    /\ pc' = IF mode = "single"
             THEN [c \in Conns |->
                      IF c \notin InFlight THEN pc[c]
                      ELSE IF prog = "lab1" THEN "killed" ELSE "close"]
             ELSE pc
    /\ UNCHANGED << config, log, clock, nconn, locals, counter, limiter >>

\* finally: server_socket.close(), main returns and the interpreter exits:
\* the handler threads are daemon threads and end with the process where
\* they stand
Exit ==
    /\ listener = "stopped"
    /\ mode = "single" => \A c \in Conns : pc[c] # "close"
    /\ listener' = "exited"
    /\ pc' = [c \in Conns |-> IF c \in InFlight THEN "killed" ELSE pc[c]]
    /\ UNCHANGED << config, log, clock, nconn, locals, counter, limiter >>

\* Time passes
Tick(maxTime) ==
    /\ clock < maxTime
    /\ clock' = clock + 1
    /\ UNCHANGED << config, run, nconn, pc, locals, counter, limiter >>


(***************************************************************************)
(* Request targets                                                         *)
(***************************************************************************)
Url ==
    [root |-> << SLASH >>,
     r_pdf |-> << SLASH >> \o Name.r_pdf,
     t_txt |-> << SLASH >> \o Name.t_txt,
     u_PDF |-> << SLASH >> \o Name.u_PDF,
     n_pdf |-> << SLASH >> \o Name.n_pdf,
     d |-> << SLASH >> \o Name.d,
     d_slash |-> << SLASH >> \o Name.d \o << SLASH >>,
     d_i_html |-> << SLASH >> \o Name.d \o << SLASH >> \o Name.i_html,
     up_x_png |-> << SLASH, DOT, DOT, SLASH >> \o Name.x_png,
     up_w2_k_html |->
         << SLASH, DOT, DOT, SLASH >> \o Name.w2 \o << SLASH >> \o Name.k_html,
     enc_up_x_png |->
         << SLASH, "%", "2", "e", "%", "2", "e", SLASH >> \o Name.x_png]

(***************************************************************************)
(* The counter: concurrent requests for two files in the three modes that  *)
(* count                                                                   *)
(***************************************************************************)
CounterConns == 3

CounterRequests == { Get(Url.d_i_html), Get(Url.r_pdf) }

InitCounter ==
    InitWith({ << "lab2", m >> : m \in CounterModes }, { Cfg.rel }, 1,
             CounterConns)

NextCounter ==
    \E c \in 1..CounterConns :
        \/ Connect(c, CounterConns)
        \/ Accept(c, "a")
        \/ \E r \in CounterRequests : Recv(c, r)
        \/ RateNow(c)
        \/ RateAcquire(c)
        \/ RateCheck(c)
        \/ CheckPath(c)
        \/ RaceRead(c)
        \/ RaceWrite(c)
        \/ CounterAcquire(c)
        \/ CounterWrite(c)
        \/ Serve(c)
        \/ Close(c)

SpecCounter == InitCounter /\ [][NextCounter]_vars


(***************************************************************************)
(* rate_limited on its own: threads call it for two addresses while time   *)
(* passes, as many calls as exceed the limit for one address twice         *)
(***************************************************************************)
\* A thread calls rate_limited(a)
Call(c, a, maxOpen) ==
    /\ pc[c] = "new"
    /\ c = nconn + 1
    /\ Cardinality(Open) < maxOpen
    /\ nconn' = c
    /\ ip' = [ip EXCEPT ![c] = a]
    /\ pc' = [pc EXCEPT ![c] = "rl_now"]
    /\ UNCHANGED << config, run, clock, req, now, rate, file_path, current_count,
                    idx, rows, resp, counter, limiter >>

\* rate_limited has returned and the caller is done with the result
Return(c) ==
    /\ pc[c] \in { "check", "close" }
    /\ rate[c] # "none"
    /\ Finish(c)

\* As many calls as exceed the limit for one address twice
LimiterCalls == LIMIT + 2

\* Calls for two addresses, one after another, the clock in whole seconds
LimiterOpen == 1
LimiterMaxTime == 1

InitLimiter ==
    InitWith({ << "lab2", "ratelimit" >> }, { Cfg.rel }, 1, LimiterCalls)

NextLimiter ==
    \/ Tick(LimiterMaxTime)
    \/ \E c \in 1..LimiterCalls :
        \/ \E a \in { "a", "b" } : Call(c, a, LimiterOpen)
        \/ RateNow(c)
        \/ RateAcquire(c)
        \/ RateCheck(c)
        \/ Return(c)

SpecLimiter == InitLimiter /\ [][NextLimiter]_vars

\* Concurrent calls for one address, the clock in whole seconds
BurstOpen == 2
BurstMaxTime == 1

InitBurst ==
    InitWith({ << "lab2", "ratelimit" >> }, { Cfg.rel }, 1, LimiterCalls)

NextBurst ==
    \/ Tick(BurstMaxTime)
    \/ \E c \in 1..LimiterCalls :
        \/ Call(c, "a", BurstOpen)
        \/ RateNow(c)
        \/ RateAcquire(c)
        \/ RateCheck(c)
        \/ Return(c)

SpecBurst == InitBurst /\ [][NextBurst]_vars

\* Calls for one address, each made after the one before has returned, the
\* clock in quarters of a second
SeqTicks == 4
SeqMaxTime == 8

InitSeq ==
    InitWith({ << "lab2", "ratelimit" >> }, { Cfg.rel }, SeqTicks, LimiterCalls)

NextSeq ==
    \/ Tick(SeqMaxTime)
    \/ \E c \in 1..LimiterCalls :
        \/ Call(c, "a", 1)
        \/ RateNow(c)
        \/ RateAcquire(c)
        \/ RateCheck(c)
        \/ Return(c)

SpecSeq == InitSeq /\ [][NextSeq]_vars

\* Concurrent calls for one address, the statements under the lock taken
\* one at a time
AtomicOpen == 2
AtomicMaxTime == 1

InitAtomic ==
    InitWith({ << "lab2", "ratelimit" >> }, { Cfg.rel }, 1, LimiterCalls)

NextAtomic ==
    \/ Tick(AtomicMaxTime)
    \/ \E c \in 1..LimiterCalls :
        \/ Call(c, "a", AtomicOpen)
        \/ RateNow(c)
        \/ RateAcquire(c)
        \/ RatePrune(c)
        \/ RateTest(c)
        \/ RateAppend(c)
        \/ Return(c)

SpecAtomic == InitAtomic /\ [][NextAtomic]_vars

(***************************************************************************)
(* ratelimit mode: requests for one file from one address, one more than   *)
(* the limit                                                               *)
(***************************************************************************)
RejectConns == LIMIT + 1
RejectOpen == 1
RejectMaxTime == 1

InitReject ==
    InitWith({ << "lab2", "ratelimit" >> }, { Cfg.rel }, 1, RejectConns)

NextReject ==
    \/ Tick(RejectMaxTime)
    \/ \E c \in 1..RejectConns :
        \/ Connect(c, RejectOpen)
        \/ Accept(c, "a")
        \/ Recv(c, Get(Url.r_pdf))
        \/ RateNow(c)
        \/ RateAcquire(c)
        \/ RateCheck(c)
        \/ CheckPath(c)
        \/ CounterAcquire(c)
        \/ CounterWrite(c)
        \/ Serve(c)
        \/ Close(c)

SpecReject == InitReject /\ [][NextReject]_vars

(***************************************************************************)
(* The three programs in every mode and with every way of naming the root, *)
(* answering requests of every kind, one connection after another           *)
(***************************************************************************)
ServeConns == 2

ServeRequests ==
    { Get(Url[k]) : k \in DOMAIN Url }
        \cup { Request("empty", "", << >>, "none"),
               Request("short", "", << >>, "none"),
               Request("line", "POST", Url.r_pdf, "none") }
        \cup { Request("line", "GET", Url.r_pdf, f) :
                  f \in { "recv", "open", "send" } }

InitServe == InitWith(ProgModes, Configs, 1, ServeConns)

NextServe ==
    \E c \in 1..ServeConns :
        \/ Connect(c, 1)
        \/ Accept(c, "a")
        \/ PreSleep(c)
        \/ \E r \in ServeRequests : Recv(c, r)
        \/ RateNow(c)
        \/ RateAcquire(c)
        \/ RateCheck(c)
        \/ CheckPath(c)
        \/ Sleep(c)
        \/ RaceRead(c)
        \/ RaceWrite(c)
        \/ CounterAcquire(c)
        \/ CounterWrite(c)
        \/ Serve(c)
        \/ ListAcquire(c)
        \/ ListRead(c)
        \/ Except(c)
        \/ Close(c)

SpecServe == InitServe /\ [][NextServe]_vars

(***************************************************************************)
(* The listener: connections arrive while a handler runs                   *)
(***************************************************************************)
ListenConns == 3
ListenOpen == 2

InitListen ==
    InitWith({ << "lab1", "single" >>, << "lab2", "single" >>,
               << "lab2", "multi" >> }, { Cfg.rel }, 1, ListenConns)

NextListen ==
    \E c \in 1..ListenConns :
        \/ Connect(c, ListenOpen)
        \/ Accept(c, "a")
        \/ \E r \in { Get(Url.r_pdf), Get(Url.n_pdf) } : Recv(c, r)
        \/ CheckPath(c)
        \/ Sleep(c)
        \/ Serve(c)
        \/ Close(c)

SpecListen == InitListen /\ [][NextListen]_vars

(***************************************************************************)
(* The counter and the listing: concurrent requests for a file and for the *)
(* listing of its directory in the modes that lock                         *)
(***************************************************************************)
CriticalConns == 2

InitCritical ==
    InitWith({ << "lab2", "threadsafe" >>, << "lab2", "ratelimit" >> },
             { Cfg.rel }, 1, CriticalConns)

NextCritical ==
    \E c \in 1..CriticalConns :
        \/ Connect(c, CriticalConns)
        \/ Accept(c, "a")
        \/ \E r \in { Get(Url.root), Get(Url.r_pdf) } : Recv(c, r)
        \/ RateNow(c)
        \/ RateAcquire(c)
        \/ RateCheck(c)
        \/ CheckPath(c)
        \/ CounterAcquire(c)
        \/ CounterWrite(c)
        \/ Serve(c)
        \/ ListAcquire(c)
        \/ ListRead(c)
        \/ Close(c)

SpecCritical == InitCritical /\ [][NextCritical]_vars

\* The steps of connection c's handler thread in the locking modes
CriticalHandler(c) ==
    \/ \E r \in { Get(Url.root), Get(Url.r_pdf) } : Recv(c, r)
    \/ RateNow(c)
    \/ RateAcquire(c)
    \/ RateCheck(c)
    \/ CheckPath(c)
    \/ CounterAcquire(c)
    \/ CounterWrite(c)
    \/ Serve(c)
    \/ ListAcquire(c)
    \/ ListRead(c)
    \/ Close(c)

\* The locking modes with every client sending its request and every thread
\* that can take a step scheduled again.  CheckPath, Serve and ListRead wait
\* for nothing and leave their location in one step, so weak fairness of
\* them is that the thread is not at that location for ever.
SpecCriticalFair ==
    /\ SpecCritical
    /\ \A c \in 1..CriticalConns :
        /\ WF_vars(Accept(c, "a"))
        /\ WF_vars(pc[c] \notin { "check", "serve", "ls_read" }
                      /\ CriticalHandler(c))
        /\ []<>(pc[c] # "check")
        /\ []<>(pc[c] # "serve")
        /\ []<>(pc[c] # "ls_read")

(***************************************************************************)
(* The same requests, one after another, in race mode and then, the server  *)
(* started again, in threadsafe mode                                       *)
(***************************************************************************)
ModesConns == 3

ModesRequests == { Get(Url.root), Get(Url.r_pdf), Get(Url.n_pdf) }

InitModes == InitWith({ << "lab2", "race" >> }, { Cfg.rel }, 1, ModesConns)

NextModes ==
    \/ (mode = "race" /\ Restart("threadsafe"))
    \/ \E c \in 1..ModesConns :
        \/ Connect(c, 1)
        \/ Accept(c, "a")
        \/ \E r \in ModesRequests :
              /\ mode = "threadsafe" => (c <= Len(log) /\ r = log[c].req)
              /\ Recv(c, r)
        \/ CheckPath(c)
        \/ RaceRead(c)
        \/ RaceWrite(c)
        \/ CounterAcquire(c)
        \/ CounterWrite(c)
        \/ Serve(c)
        \/ ListAcquire(c)
        \/ ListRead(c)
        \/ (mode = "race" /\ CloseLogged(c))
        \/ (mode = "threadsafe" /\ Close(c))

SpecModes == InitModes /\ [][NextModes]_vars

(***************************************************************************)
(* ratelimit mode with a client that connects and never sends: recv       *)
(* returns only when the client has sent something or has shut down, and  *)
(* the client at address "s" does neither.  Every thread that can take a   *)
(* step eventually takes it.                                               *)
(***************************************************************************)
StallConns == 3
StallOpen == 2
StallMaxTime == 2

InitStall ==
    InitWith({ << "lab2", "ratelimit" >> }, { Cfg.rel }, 1, StallConns)

StallHandler(c) ==
    \/ (ip[c] # "s" /\ Recv(c, Get(Url.r_pdf)))
    \/ RateNow(c)
    \/ RateAcquire(c)
    \/ RateCheck(c)
    \/ CheckPath(c)
    \/ CounterAcquire(c)
    \/ CounterWrite(c)
    \/ Serve(c)
    \/ Close(c)

NextStall ==
    \/ Tick(StallMaxTime)
    \/ \E c \in 1..StallConns :
        \/ Connect(c, StallOpen)
        \/ \E a \in { "a", "s" } : Accept(c, a)
        \/ StallHandler(c)

\* Every handler thread that can take a step is scheduled again.  CheckPath
\* and Serve wait for nothing and leave their location in one step, so weak
\* fairness of them is that the thread is not at that location for ever.
SpecStall ==
    /\ InitStall
    /\ [][NextStall]_vars
    /\ \A c \in 1..StallConns :
        /\ WF_vars(pc[c] \notin { "check", "serve" } /\ StallHandler(c))
        /\ []<>(pc[c] # "check")
        /\ []<>(pc[c] # "serve")

(***************************************************************************)
(* Faults: the first connection of a run meets a fault, the later ones     *)
(* none; the server is then started again in the same mode and the later   *)
(* connections are repeated after a first connection without a fault       *)
(***************************************************************************)
FaultConns == 2

Faults == { "recv", "open", "send" }

FaultedRequests == { Request("line", "GET", Url.r_pdf, f) : f \in Faults }

LaterRequests == { Get(Url.root), Get(Url.r_pdf), Get(Url.n_pdf) }

FirstRequests == { Request("empty", "", << >>, "none"), Get(Url.r_pdf) }

\* The requests the run lets connection c send
FaultRun(c) ==
    IF Len(log) = 0 THEN FaultedRequests
    ELSE IF Len(log) < FaultConns THEN LaterRequests
    ELSE IF Len(log) = FaultConns THEN FirstRequests
    ELSE { log[c].req }

InitFault == InitWith(ProgModes, { Cfg.rel }, 1, FaultConns)

NextFault ==
    \/ (Len(log) = FaultConns /\ Restart(mode))
    \/ \E c \in 1..FaultConns :
        \/ Connect(c, 1)
        \/ Accept(c, "a")
        \/ PreSleep(c)
        \/ \E r \in FaultRun(c) : Recv(c, r)
        \/ RateNow(c)
        \/ RateAcquire(c)
        \/ RateCheck(c)
        \/ CheckPath(c)
        \/ Sleep(c)
        \/ RaceRead(c)
        \/ RaceWrite(c)
        \/ CounterAcquire(c)
        \/ CounterWrite(c)
        \/ Serve(c)
        \/ ListAcquire(c)
        \/ ListRead(c)
        \/ Except(c)
        \/ CloseLogged(c)

SpecFault == InitFault /\ [][NextFault]_vars

(***************************************************************************)
(* The server is interrupted while connections are handled                 *)
(***************************************************************************)
InterruptConns == 2

InterruptOpen == 2

InitInterrupt ==
    InitWith({ << "lab1", "single" >>, << "lab2", "single" >>,
               << "lab2", "threadsafe" >>, << "lab2mt", "multi" >> },
             { Cfg.rel }, 1, InterruptConns)

NextInterrupt ==
    \/ Interrupt
    \/ Exit
    \/ \E c \in 1..InterruptConns :
        \/ Connect(c, InterruptOpen)
        \/ Accept(c, "a")
        \/ PreSleep(c)
        \/ Recv(c, Get(Url.r_pdf))
        \/ CheckPath(c)
        \/ Sleep(c)
        \/ CounterAcquire(c)
        \/ CounterWrite(c)
        \/ Serve(c)
        \/ Close(c)

SpecInterrupt == InitInterrupt /\ [][NextInterrupt]_vars

(***************************************************************************)
(* The threaded modes: one thread per accepted connection                  *)
(***************************************************************************)
DispatchConns == 3

InitDispatch ==
    InitWith({ << "lab2mt", "multi" >> }
                 \cup { << "lab2", m >> : m \in Modes \ { "single" } },
             { Cfg.rel }, 1, DispatchConns)

NextDispatch ==
    \E c \in 1..DispatchConns :
        \/ Connect(c, DispatchConns)
        \/ Accept(c, "a")
        \/ PreSleep(c)
        \/ Recv(c, Get(Url.r_pdf))
        \/ RateNow(c)
        \/ RateAcquire(c)
        \/ RateCheck(c)
        \/ CheckPath(c)
        \/ Sleep(c)
        \/ RaceRead(c)
        \/ RaceWrite(c)
        \/ CounterAcquire(c)
        \/ CounterWrite(c)
        \/ Serve(c)
        \/ Close(c)

SpecDispatch == InitDispatch /\ [][NextDispatch]_vars

(***************************************************************************)
(* Rate limiting of requests of every outcome: one address, one connection *)
(* at a time                                                               *)
(***************************************************************************)
SlotConns == LIMIT + 1

SlotMaxTime == 1

SlotRequests ==
    { Get(Url.r_pdf), Get(Url.n_pdf), Get(Url.up_x_png),
      Request("line", "POST", Url.r_pdf, "none"),
      Request("short", "", << >>, "none") }

InitSlot == InitWith({ << "lab2", "ratelimit" >> }, { Cfg.rel }, 1, SlotConns)

NextSlot ==
    \/ Tick(SlotMaxTime)
    \/ \E c \in 1..SlotConns :
        \/ Connect(c, 1)
        \/ Accept(c, "a")
        \/ \E r \in SlotRequests : Recv(c, r)
        \/ RateNow(c)
        \/ RateAcquire(c)
        \/ RateCheck(c)
        \/ CheckPath(c)
        \/ CounterAcquire(c)
        \/ CounterWrite(c)
        \/ Serve(c)
        \/ Close(c)

SpecSlot == InitSlot /\ [][NextSlot]_vars

\* Handlers that have read the count of a path and not yet written it
Pending(path) ==
    { c \in Conns : pc[c] \in { "race_write", "c_write" } /\ file_path[c] = path }

AllClosed == \A c \in Conns : pc[c] = "closed"

\* C1: in threadsafe and ratelimit modes no update is lost: the stored
\* count of every path equals the number of increments handlers have
\* completed on it, so N completed increments of one path leave exactly N.
C1_NoLostUpdate ==
    mode \in { "threadsafe", "ratelimit" } =>
        /\ DOMAIN file_hits = DOMAIN incs
        /\ \A path \in DOMAIN incs : file_hits[path] = incs[path]

\* Every connection has been handled, all asked for the same file, and its
\* count is the number of connections
C1_Witness ==
    /\ mode = "ratelimit"
    /\ AllClosed
    /\ \E path \in DOMAIN file_hits :
          incs[path] = CounterConns /\ file_hits[path] = CounterConns

\* C2: in race mode an update is lost whenever a handler read the count of
\* a path while another handler was between its read and its write of that
\* path: once the handlers that read it have written it, the stored count
\* is less than the number of increments completed.
C2_LostUpdate ==
    mode = "race" =>
        \A path \in overlapped :
            Pending(path) = {} => file_hits[path] < incs[path]

\* Every connection has been handled, all asked for the same file, and its
\* count is less than the number of connections
C2_Witness ==
    /\ mode = "race"
    /\ AllClosed
    /\ \E path \in overlapped :
          incs[path] = CounterConns /\ file_hits[path] < CounterConns

\* The admissions of address a recorded with a timestamp in (lo, hi]
RECURSIVE AdmittedIn(_, _, _)
AdmittedIn(a, lo, hi) ==
    IF hi <= lo \/ hi < 0 THEN 0
    ELSE DictGet(DictGet(admitted, a, EmptyDict), hi, 0)
             + AdmittedIn(a, lo, hi - 1)

\* C3: for every address and every instant t, at most LIMIT admitted checks
\* of that address have a recorded timestamp in the second that ends at t,
\* whatever the interleaving of the calls.
C3_AtMostLimit ==
    \A a \in DOMAIN admitted :
        \A t \in 0..clock : AdmittedIn(a, t - WINDOW * tps, t) <= LIMIT

\* The checks a caller has the result of and has not yet returned from
Checked == { c \in Conns : rate[c] # "none" }

\* The admitted checks of c's address in the second before c's check, c's
\* own not counted
Before(c) ==
    AdmittedIn(ip[c], now[c] - WINDOW * tps, now[c])
        - (IF rate[c] = "admitted" THEN 1 ELSE 0)

\* C4: when the checks of one address follow one another, a check is
\* admitted exactly when fewer than LIMIT checks of the address were admitted
\* within the second before it.
C4_AdmitsBelowLimit ==
    \A c \in Checked : rate[c] = "admitted" <=> Before(c) < LIMIT

\* Five checks within 750 ms were admitted, the sixth was rejected, and the
\* seventh, more than a second after the first five, is admitted
C4_Witness ==
    /\ nconn = LIMIT + 2
    /\ rate[nconn] = "admitted"
    /\ AdmittedIn("a", -1, SeqTicks - 1) = LIMIT
    /\ AdmittedIn("a", -1, clock) = LIMIT + 1
    /\ now[nconn] >= 2 * SeqTicks - 1

\* C5: a step changes the timestamps of an address only when it is the check
\* of a caller of that address, the lists of all other addresses stay as
\* they were, and the outcome of the check is that of the caller's own
\* address's list.
C5_Independent ==
    [][rate_limits' # rate_limits =>
          \E c \in Conns :
              /\ pc[c] = "rl_body"
              /\ pc'[c] # "rl_body"
              /\ \A b \in (DOMAIN rate_limits \cup DOMAIN rate_limits') \ { ip[c] } :
                    /\ b \in DOMAIN rate_limits
                    /\ b \in DOMAIN rate_limits'
                    /\ rate_limits'[b] = rate_limits[b]
              /\ rate'[c] = "rejected" <=>
                    OverLimit(Prune(DictGet(rate_limits, ip[c], << >>), now[c]))
      ]_vars

\* A check of address b is rejected while address a has timestamps stored
C5_Witness ==
    /\ "a" \in DOMAIN rate_limits
    /\ rate_limits["a"] # << >>
    /\ \E c \in Checked : ip[c] = "b" /\ rate[c] = "rejected"

\* Where a handler is once it is past the rate check
PastRateCheck ==
    { "check", "sleep", "race_read", "race_write", "c_lock", "c_write",
      "serve", "ls_lock", "ls_read" }

\* C6: in ratelimit mode a handler resolves the path and reaches the counter
\* only after its check was admitted; a handler whose check was rejected
\* has answered 429, is about to close, has resolved no path and read no
\* count, and none of its steps changes file_hits.
C6_RejectedLeavesCounter ==
    /\ [](mode = "ratelimit" =>
            \A c \in Conns :
                /\ (pc[c] \in PastRateCheck \/ file_path[c] # << >>)
                       => rate[c] = "admitted"
                /\ rate[c] = "rejected" =>
                       /\ pc[c] = "close"
                       /\ resp[c].status = 429
                       /\ file_path[c] = << >>
                       /\ current_count[c] = 0)
    /\ [][\A c \in Conns :
              (pc'[c] # pc[c] /\ (rate[c] = "rejected" \/ rate'[c] = "rejected"))
                  => file_hits' = file_hits]_vars

\* The sixth request of an address was rejected after five were counted
C6_Witness ==
    \E c \in Conns :
        /\ rate[c] = "rejected"
        /\ resp[c].status = 429
        /\ \E path \in DOMAIN file_hits : file_hits[path] = LIMIT

\* The directory the server serves, and the location a request target
\* names under it, as the operating system resolves them
Root == Canon(cwd, base_dir)

Location(r) == Canon(cwd, join(base_dir, LStripSlash(UrlPath(r))))

Escapes(r) == ~StartsWith(Location(r), Root)

HasParentSegment(r) ==
    \E i \in DOMAIN SplitSlash(UrlPath(r), << >>) :
        SplitSlash(UrlPath(r), << >>)[i] = DOTDOT

\* The connections whose handler has answered a request line it read
\* without a fault on the socket, the rate limiter not having rejected it
Answered ==
    { c \in Conns :
        /\ pc[c] = "close"
        /\ req[c].raw \in { "short", "line" }
        /\ req[c].fault \notin { "recv", "send" }
        /\ rate[c] # "rejected" }

\* C7: a GET whose path has a parent-directory segment and names a location
\* outside the served directory is answered 403, with no file and no
\* listing, in every program and mode.
C7_TraversalForbidden ==
    \A c \in Answered :
        (/\ req[c].raw = "line"
         /\ req[c].method = "GET"
         /\ req[c].fault = "none"
         /\ HasParentSegment(req[c])
         /\ Escapes(req[c]))
            => /\ resp[c].status = 403
               /\ resp[c].file = << >>
               /\ resp[c].rows = << >>

\* C8: in single mode at most one handler is in flight, and a connection is
\* accepted only when every connection that arrived before it is closed.
C8_OneAtATime ==
    mode = "single" =>
        /\ Cardinality(InFlight) <= 1
        /\ \A c, d \in Conns :
              (c < d /\ pc[d] \notin { "new", "queued" }) => pc[c] = "closed"

\* The third connection waits while the second is handled, the first closed
C8_Witness ==
    /\ mode = "single"
    /\ pc[1] = "closed"
    /\ pc[2] = "close"
    /\ resp[2].status \in { 200, 404 }
    /\ pc[3] = "queued"

\* The status the error mapping gives a request
MappedStatus(r) ==
    IF r.raw = "short" THEN 400
    ELSE IF r.method # "GET" THEN 405
    ELSE IF Escapes(r) THEN 403
    ELSE IF Location(r) \notin Dirs \cup Files THEN 404
    ELSE IF /\ Location(r) \in Files
            /\ Lower(Suffix(UrlPath(r))) \notin SupportedExtensions
    THEN 404
    ELSE IF r.fault # "none" THEN 500
    ELSE 200

\* C9: the status of every answer is the one the error mapping gives its
\* request, in every program and mode.
C9_ErrorMapping ==
    \A c \in Answered : resp[c].status = MappedStatus(req[c])

\* C10: a GET for a file that exists under the served directory and whose
\* extension is not supported is answered 404 with a body other than the
\* one a GET for a path that does not exist is answered with, in every
\* program and mode.
C10_UnsupportedDiffers ==
    \A c \in Answered :
        (req[c].raw = "line" /\ req[c].method = "GET" /\ ~Escapes(req[c])) =>
            /\ (/\ Location(req[c]) \in Files
                /\ Lower(Suffix(UrlPath(req[c]))) \notin SupportedExtensions)
                   => /\ resp[c].status = 404
                      /\ resp[c].text # NotFoundBody(prog)
            /\ Location(req[c]) \notin Dirs \cup Files
                   => /\ resp[c].status = 404
                      /\ resp[c].text = NotFoundBody(prog)

\* A text file of the served directory was asked for and refused
C10_Witness ==
    \E c \in Answered :
        /\ req[c] = Get(Url.t_txt)
        /\ resp[c].status = 404
        /\ resp[c].text = UnsupportedBody(prog)
        /\ resp[c].text # NotFoundBody(prog)

\* C11: in the modes that count, only files are counted: no key of
\* file_hits names a directory, so a request for a directory listing leaves
\* the store as it was.
C11_OnlyFilesCounted ==
    mode \in CounterModes =>
        \A path \in DOMAIN file_hits : ~isdir(cwd, path)

\* C12: a handler whose socket does not fault has sent a response when it
\* comes to close the connection.
C12_RespondedBeforeClosed ==
    \A c \in Conns :
        (pc[c] = "close" /\ req[c].fault = "none") => resp[c] # NoResponse

\* C13: a GET for a .pdf file that exists under the served directory is
\* answered 200 with Content-Type application/pdf and the content of that
\* file as the body, in every program and mode.
C13_PdfServed ==
    \A c \in Answered :
        (/\ req[c].raw = "line"
         /\ req[c].method = "GET"
         /\ req[c].fault = "none"
         /\ ~Escapes(req[c])
         /\ Location(req[c]) \in Files
         /\ Lower(Suffix(UrlPath(req[c]))) = Ext.pdf)
            => resp[c] = Response(200, "application/pdf", "",
                                  Location(req[c]), << >>)

\* The file r.pdf of the served directory was asked for and sent
C13_Witness ==
    \E c \in Answered :
        /\ req[c] = Get(Url.r_pdf)
        /\ resp[c].status = 200
        /\ resp[c].ctype = "application/pdf"
        /\ resp[c].file = << Name.h, Name.w, Name.r_pdf >>

\* The handlers inside an access to file_hits: between the read and the
\* write of an increment, or reading a count for a listing
Inside == { c \in Conns : pc[c] \in { "c_write", "ls_read" } }

\* C14: in threadsafe and ratelimit modes at most one handler at a time is
\* inside an access to file_hits, increment or listing read, whatever the
\* keys, and it is the handler that holds counter_lock.
C14_OneInside ==
    mode \in { "threadsafe", "ratelimit" } =>
        /\ Cardinality(Inside) <= 1
        /\ \A c \in Inside : counter_lock = c

\* A listing that has read some counts waits for the lock while another
\* handler is between its read and its write
C14_Witness ==
    \E c, d \in Conns :
        /\ pc[c] = "c_write"
        /\ pc[d] = "ls_lock"
        /\ idx[d] > 1
        /\ counter_lock = c

\* The callers inside rate_limited's locked block
InLimiter == { c \in Conns : pc[c] \in { "rl_body", "rl_test", "rl_append" } }

\* C15: under any interleaving of concurrent rate_limited calls at most one
\* caller is between the prune and the append, and the stored timestamps of
\* every address number at most LIMIT.
C15_StoredAtMostLimit ==
    /\ Cardinality(InLimiter) <= 1
    /\ \A c \in InLimiter : rate_limit_lock = c
    /\ \A a \in DOMAIN rate_limits : Len(rate_limits[a]) <= LIMIT

\* A caller that found one place left is about to append while another
\* caller for the same address waits for the lock
C15_Witness ==
    \E c, d \in Conns :
        /\ pc[c] = "rl_append"
        /\ Len(rate_limits[ip[c]]) = LIMIT - 1
        /\ pc[d] = "rl_lock"
        /\ ip[d] = ip[c]

\* C16: a thread holds rate_limit_lock only inside rate_limited and
\* counter_lock only inside an access to file_hits, so no thread ever holds
\* both and the limiter's lock is released before the counter's is taken.
C16_NeverBothLocks ==
    \A c \in Conns :
        /\ rate_limit_lock = c => c \in InLimiter
        /\ counter_lock = c => c \in Inside
        /\ ~(rate_limit_lock = c /\ counter_lock = c)

\* Both locks are held at once, by two different handlers
C16_Witness ==
    \E c, d \in Conns :
        /\ c # d
        /\ counter_lock = c
        /\ rate_limit_lock = d
        /\ mode = "ratelimit"

\* C17: when the requests a race mode server answered one after another are
\* sent again, in the same order, to a threadsafe mode server, every answer
\* and the contents of file_hits after every request are the same.
C17_ModesAgree ==
    mode = "threadsafe" =>
        \A c \in Conns :
            pc[c] = "close" =>
                /\ c <= Len(log)
                /\ req[c] = log[c].req
                /\ resp[c] = log[c].resp
                /\ file_hits = log[c].hits

\* The last of the requests is a listing that shows a count, answered in
\* threadsafe mode as it was in race mode
C17_Witness ==
    /\ mode = "threadsafe"
    /\ Len(log) = ModesConns
    /\ pc[ModesConns] = "close"
    /\ resp[ModesConns] = log[ModesConns].resp
    /\ \E i \in DOMAIN resp[ModesConns].rows : resp[ModesConns].rows[i].hits > 0

\* C18: in ratelimit mode a handler that waits in recv eventually closes its
\* connection, also when the client never sends anything.
C18_SilentClientClosed ==
    \A c \in 1..StallConns : (pc[c] = "recv") ~> (pc[c] = "closed")


\* The run is in its second start, connection c has been answered, and the
\* first connection of this start left file_hits as the faulted first
\* connection of the first start left it
Repeated(c) ==
    /\ c > 1
    /\ Len(log) = FaultConns + c - 1
    /\ pc[c] = "close"
    /\ log[FaultConns + 1].hits = log[1].hits

\* C19: a fault on one connection leaves the listener running and neither
\* lock held, and file_hits holds exactly the completed increments; the
\* handler answers 500 unless the fault is on the send, and closes; every
\* later connection is answered as it is answered in a run whose first
\* connection met no fault.
C19_FaultContained ==
    /\ listener = "up"
    /\ \A c \in Conns :
          pc[c] \in { "except", "close", "closed" } =>
              counter_lock # c /\ rate_limit_lock # c
    /\ (\A c \in Conns : pc[c] \notin { "race_write", "c_write" }) =>
          /\ DOMAIN file_hits = DOMAIN incs
          /\ \A path \in DOMAIN incs : file_hits[path] = incs[path]
    /\ \A c \in Conns :
          (pc[c] = "close" /\ req[c].fault # "none") =>
              resp[c] = IF req[c].fault = "send" THEN NoResponse
                        ELSE Text(500, "text/plain", "Internal Server Error: ")
    /\ \A i \in DOMAIN log :
          log[i].req.fault \in { "recv", "open" } => log[i].resp.status = 500
    /\ \A c \in Conns : Repeated(c) => resp[c] = log[c].resp

\* The open of the first connection failed in threadsafe mode: it was
\* answered 500 and closed with its hit counted, and the listing the next
\* connection got shows that hit, as in the run without the fault
C19_Witness ==
    /\ mode = "threadsafe"
    /\ Repeated(FaultConns)
    /\ log[1].req.fault = "open"
    /\ log[1].resp.status = 500
    /\ log[FaultConns + 1].resp.status = 200
    /\ resp[FaultConns].status = 200
    /\ \E i \in DOMAIN resp[FaultConns].rows :
          resp[FaultConns].rows[i].hits = 1
    /\ counter_lock = 0

\* C20: a handler that is in flight when the listener loop is interrupted is
\* never ended from outside: no handler is cut off before it has closed its
\* connection.
C20_InFlightNotCancelled ==
    \A c \in Conns : pc[c] # "killed"

\* The connections whose request has been read and whose socket is not yet
\* closed
Handling ==
    { c \in Conns : pc[c] \notin { "new", "queued", "presleep", "recv", "closed" } }

\* C21: in every mode other than single the listener can accept the oldest
\* waiting connection whatever the handlers of the earlier connections are
\* doing.
C21_AcceptNotBlocked ==
    mode # "single" =>
        \A c \in Conns :
            (pc[c] = "queued" /\ \A d \in Conns : pc[d] = "queued" => c <= d)
                => ENABLED Accept(c, "a")

\* Two handlers are between the read of their request and their close, and
\* the listener has accepted a third connection meanwhile
C21_Witness ==
    /\ mode # "single"
    /\ Cardinality(Handling) >= 2
    /\ \E c \in Conns \ Handling : pc[c] \in { "presleep", "recv" }

\* C22: the count a listing of the counting modes shows for an entry is the
\* count stored under every key that names the entry's file: requests for
\* the file and the listing of its directory use one key, however the URL
\* and the served directory are spelled.
C22_OneKeyPerFile ==
    \A c \in Conns :
        (/\ pc[c] = "close"
         /\ prog = "lab2"
         /\ mode \in CounterModes
         /\ resp[c].rows # << >>) =>
            \A i \in DOMAIN resp[c].rows : \A k \in DOMAIN file_hits :
                Canon(cwd, k) = Canon(cwd, join(file_path[c], resp[c].rows[i].name))
                    => resp[c].rows[i].hits = file_hits[k]

\* C23: the step in which a check is rejected stores for the caller's address
\* the pruned list and nothing else: the caller's timestamp is not appended,
\* the list does not grow and no admission is recorded.
C23_RejectedNotAppended ==
    [][\A c \in Conns :
          (pc[c] = "rl_body" /\ rate'[c] = "rejected") =>
              LET old == DictGet(rate_limits, ip[c], << >>)
              IN  /\ rate_limits' = Stored(rate_limits, ip[c], Prune(old, now[c]))
                  /\ Len(rate_limits'[ip[c]]) <= Len(old)
                  /\ admitted' = admitted
      ]_vars

\* A check of address a was rejected, and the address has LIMIT timestamps
\* stored, not one more
C23_Witness ==
    \E c \in Checked :
        /\ ip[c] = "a"
        /\ rate[c] = "rejected"
        /\ Len(rate_limits["a"]) = LIMIT

\* C24: a check keeps of the caller's list exactly the timestamps that are
\* at most one second old, one that is exactly one second old included, and
\* drops the others.
C24_KeepsOneSecondOld ==
    [][\A c \in Conns :
          (pc[c] = "rl_body" /\ pc'[c] # "rl_body") =>
              LET old == DictGet(rate_limits, ip[c], << >>)
                  kept == SelectSeq(old, LAMBDA ts : now[c] - ts <= WINDOW * tps)
              IN  rate_limits'[ip[c]] \in { kept, Append(kept, now[c]) }
      ]_vars

\* C25: the stored timestamps of every address are in non-decreasing order,
\* oldest first, whatever the interleaving of the calls.
C25_Ordered ==
    \A a \in DOMAIN rate_limits :
        \A i, j \in DOMAIN rate_limits[a] :
            i < j => rate_limits[a][i] <= rate_limits[a][j]

\* C26: a handler that answers 400, 403, 404, 405 or 429 has left file_hits
\* as it found it; for the first connection of a run, empty.
C26_ErrorLeavesCounter ==
    \A c \in Conns :
        (/\ pc[c] = "close"
         /\ resp[c].status \in { 400, 403, 404, 405, 429 }
         /\ \A d \in Conns \ { c } : pc[d] = "new")
            => file_hits = EmptyDict

\* C27: in single and multi modes file_hits and rate_limits stay empty, no
\* handler takes a lock or has its rate checked; in race and threadsafe
\* modes rate_limits stays empty and no handler has its rate checked.
C27_ModeSkipsStores ==
    /\ mode \in { "single", "multi" } =>
          /\ file_hits = EmptyDict
          /\ counter_lock = 0
    /\ mode # "ratelimit" =>
          /\ rate_limits = EmptyDict
          /\ rate_limit_lock = 0
          /\ \A c \in Conns : rate[c] = "none" /\ now[c] = 0

\* In single mode of server.py a file was served to the first connection and
\* a listing to the second
C27_Witness ==
    /\ prog = "lab2"
    /\ mode = "single"
    /\ nconn = 2
    /\ pc[1] = "closed"
    /\ pc[2] = "close"
    /\ req[2] = Get(Url.root)
    /\ resp[2].status = 200
    /\ resp[2].rows # << >>
    /\ file_hits = EmptyDict

\* Where a handler waits for a lock
LockWaits == { "rl_lock", "c_lock", "ls_lock" }

\* C28: in threadsafe and ratelimit modes a handler that waits for a lock
\* holds none, and every handler whose connection was accepted and whose
\* client sends its request closes the connection: none waits for ever.
C28_DeadlockFree ==
    /\ [](\A c \in Conns :
             pc[c] \in LockWaits => counter_lock # c /\ rate_limit_lock # c)
    /\ \A c \in 1..CriticalConns :
          (pc[c] \in LockWaits \cup { "recv" }) ~> (pc[c] = "closed")

\* A listing request has counted its own hit, released the lock, and waits
\* to take it again for an entry while the listing of another handler holds
\* it
C28_Witness ==
    \E c, d \in Conns :
        /\ pc[c] = "ls_lock"
        /\ DictGet(file_hits, file_path[c], 0) >= 1
        /\ counter_lock = d
        /\ pc[d] = "ls_read"

\* A step under which file_hits only grows
GrowsByOne ==
    /\ \A k \in DOMAIN file_hits :
          /\ k \in DOMAIN file_hits'
          /\ file_hits'[k] \in { file_hits[k], file_hits[k] + 1 }
    /\ \A k \in DOMAIN file_hits' \ DOMAIN file_hits : file_hits'[k] = 1

\* C29: in threadsafe and ratelimit modes every count is at least 1, and in
\* every step every key stays in file_hits with its count or its count plus
\* one, and a key that enters file_hits enters with count 1.
C29_OnlyGrows ==
    /\ [](mode \in { "threadsafe", "ratelimit" } =>
             \A k \in DOMAIN file_hits : file_hits[k] >= 1)
    /\ [][(mode \in { "threadsafe", "ratelimit" }) => GrowsByOne]_vars

\* One key has been incremented twice and another key is stored too
C29_Witness ==
    /\ mode = "threadsafe"
    /\ \E k \in DOMAIN file_hits : file_hits[k] = CounterConns - 1
    /\ \E k \in DOMAIN file_hits : file_hits[k] = 1
    /\ Cardinality(DOMAIN file_hits) = 2

\* C30: in race mode the stored count of every key is at least 1 and at most
\* the number of increments handlers have completed on the key, and the keys
\* stored are the keys incremented.
C30_RaceBounds ==
    mode = "race" =>
        /\ DOMAIN file_hits = DOMAIN incs
        /\ \A path \in DOMAIN incs :
              1 <= file_hits[path] /\ file_hits[path] <= incs[path]

\* Every handler has incremented the same key and the key's count is 1: all
\* updates but one were lost
C30_Witness ==
    /\ mode = "race"
    /\ \E path \in DOMAIN incs :
          incs[path] = CounterConns /\ file_hits[path] = 1

\* A step that answers 400 leaves the rate limiter as it was
BadRequestFree ==
    \A c \in Conns :
        (resp'[c] # resp[c] /\ resp'[c].status = 400) =>
            UNCHANGED << limiter, rate, now >>

\* C31: in ratelimit mode a handler that answers 200, 403, 404 or 405 has had
\* its check admitted and its timestamp is stored and recorded for its
\* address; at most LIMIT timestamps are stored whatever the outcomes; a
\* handler that answers 400 has made no check and its answer leaves the
\* limiter as it was.
C31_EveryOutcomeCounts ==
    /\ [](\A c \in Conns : pc[c] = "close" =>
             /\ resp[c].status \in { 200, 403, 404, 405 } =>
                   /\ rate[c] = "admitted"
                   /\ \E i \in DOMAIN rate_limits[ip[c]] :
                         rate_limits[ip[c]][i] = now[c]
                   /\ AdmittedIn(ip[c], now[c] - 1, now[c]) >= 1
             /\ resp[c].status = 429 <=> rate[c] = "rejected"
             /\ resp[c].status = 400 => rate[c] = "none")
    /\ [](\A a \in DOMAIN rate_limits : Len(rate_limits[a]) <= LIMIT)
    /\ [][BadRequestFree]_vars

\* Five requests within one second were admitted and none of them reached
\* the counter, each having ended in 403, 404 or 405; the sixth, for a file
\* that exists, is answered 429
C31_Witness ==
    /\ nconn = LIMIT + 1
    /\ pc[nconn] = "close"
    /\ req[nconn] = Get(Url.r_pdf)
    /\ resp[nconn].status = 429
    /\ AdmittedIn("a", -1, clock) = LIMIT
    /\ file_hits = EmptyDict
=============================================================================
